---------------------------- MODULE Spec2Model ----------------------------
(***************************************************************************)
(* A model of cassandra_session.CassandraManager: the beaker namespace     *)
(* manager that keeps session data in the Cassandra table web_session.     *)
(*                                                                         *)
(* Strings are sequences of one-character strings, so that key            *)
(* formatting, hex coding and keyspace normalisation are computed          *)
(* character by character as the code computes them.                       *)
(***************************************************************************)
EXTENDS Integers, Sequences, FiniteSets, TLC

(***************************************************************************)
(* Bounds of the model.                                                    *)
(***************************************************************************)
\* the table holds at most MaxRows rows (guard of Set)
MaxRows == 3

(***************************************************************************)
(* Python values: None, booleans and small integers, all of one shape.     *)
(***************************************************************************)
PyNone == [t |-> "None", i |-> 0]
PyInt(n) == [t |-> "int", i |-> n]
PyBool(b) == [t |-> "bool", i |-> IF b THEN 1 ELSE 0]

\* the values the callers store
Values == {PyInt(7), PyInt(200)}
\* the defaults the callers pass to get(key, default)
Defaults == {PyNone, PyInt(7)}

(***************************************************************************)
(* Inputs: namespaces and logical keys.  "0xC2","0xB7" are the two bytes   *)
(* of the Python 2 literal '\302\267'.                                      *)
(***************************************************************************)
Namespaces == {<<"n">>, <<"m">>}
LogicalKeys ==
    {<<"a", "\t", "b">>, <<"a", " ", "b">>, <<"a", "0xC2", "0xB7", "b">>}

Range(s) == {s[i] : i \in DOMAIN s}

(***************************************************************************)
(* Key Codec                                                               *)
(***************************************************************************)
\* str.replace(old, new) for a one-character old
RECURSIVE StrReplace(_, _, _)
StrReplace(s, old, new) ==
    IF s = <<>> THEN <<>>
    ELSE (IF Head(s) = old THEN new ELSE <<Head(s)>>)
             \o StrReplace(Tail(s), old, new)

\* a mutation of FormatKey: the key is used as given
FormatKeyRaw(ns, key) == ns \o <<":">> \o key

\* _format_key: '%s:%s' % (self.namespace, key.replace(' ', '\302\267'))
FormatKey(ns, key) ==
    ns \o <<":">> \o StrReplace(key, " ", <<"0xC2", "0xB7">>)

HexDigits ==
    <<"0", "1", "2", "3", "4", "5", "6", "7",
      "8", "9", "a", "b", "c", "d", "e", "f">>

HexValue(c) == CHOOSE n \in 0..15 : HexDigits[n + 1] = c

\* str.encode('hex'): two lower-case hex digits per byte
RECURSIVE HexEncode(_)
HexEncode(bytes) ==
    IF bytes = <<>> THEN <<>>
    ELSE <<HexDigits[(Head(bytes) \div 16) + 1],
           HexDigits[(Head(bytes) % 16) + 1]>> \o HexEncode(Tail(bytes))

\* whether str.decode('hex') accepts the text
HexValid(text) ==
    /\ Len(text) % 2 = 0
    /\ \A i \in DOMAIN text : text[i] \in Range(HexDigits)

\* str.decode('hex') of a valid text
RECURSIVE HexDecode(_)
HexDecode(text) ==
    IF text = <<>> THEN <<>>
    ELSE <<HexValue(text[1]) * 16 + HexValue(text[2])>>
             \o HexDecode(Tail(Tail(text)))

\* pickle.dumps(value, 2): PROTO 2, then NONE / NEWTRUE / NEWFALSE /
\* BININT1 n, then STOP
PickleDumps(v) ==
    <<128, 2>> \o
    (CASE v.t = "None" -> <<78>>
       [] v.t = "bool" -> IF v.i = 1 THEN <<136>> ELSE <<137>>
       [] v.t = "int"  -> <<75, v.i>>) \o <<46>>

\* whether pickle.loads accepts the bytes
PickleValid(b) ==
    /\ Len(b) \in {4, 5}
    /\ b[1] = 128 /\ b[2] = 2 /\ b[Len(b)] = 46
    /\ IF Len(b) = 4 THEN b[3] \in {78, 136, 137} ELSE b[3] = 75

\* pickle.loads of valid bytes
PickleLoads(b) ==
    IF Len(b) = 5 THEN PyInt(b[4])
    ELSE IF b[3] = 78 THEN PyNone ELSE PyBool(b[3] = 136)

(***************************************************************************)
(* State                                                                   *)
(***************************************************************************)
VARIABLES
    \* the web_session table: storage key -> data column (hex text)
    table,
    \* the last call on a store and what it returned or raised
    res,
    \* history: storage key -> the value of the last set() on it that no
    \* delete followed
    lastSet,
    \* the cluster: the data-center of each node
    nodes,
    \* the cluster's schema: keyspace name -> the tables of the keyspace
    schema,
    \* the construction of a manager: where __init__ stands (pc), its
    \* arguments, what it computed so far, the driver calls it made (trace)
    \* and the exception it raised (exc)
    ctor,
    \* the construction of a second manager whose statements interleave
    \* with those of ctor: the one that is not making a statement now
    other,
    \* a do_remove in progress, or just ended, while other clients use the
    \* table: where it stands (pc), the keys its scan listed, the keys it
    \* has still to delete (rest), the exception it raised, and the storage
    \* keys other clients have set since its scan (since)
    purging

storeVars == <<table, res, lastSet>>
openVars == <<nodes, schema, ctor>>

NoList == <<>>
NoKey == <<>>

\* no do_remove is in progress
NoPurge ==
    [pc |-> "idle", ns |-> <<>>, listed |-> <<>>, rest |-> <<>>,
     exc |-> "none", since |-> {}]

\* a call's outcome: exc is the exception raised ("none": returned), val
\* the returned value, list the returned list
Outcome(op, ns, key, arg, exc, val, list) ==
    [op |-> op, ns |-> ns, key |-> key, arg |-> arg,
     exc |-> exc, val |-> val, list |-> list]

(***************************************************************************)
(* The prepared statements, executed on the table.                         *)
(***************************************************************************)
\* a mutation of ExecInsert: INSERT ... IF NOT EXISTS, an existing row is kept
ExecInsertIfNotExists(t, skey, data) ==
    [k \in DOMAIN t \cup {skey} |-> IF k \in DOMAIN t THEN t[k] ELSE data]

\* _qry_insert: INSERT INTO web_session (key, data) VALUES (?, ?)
ExecInsert(t, skey, data) ==
    [k \in DOMAIN t \cup {skey} |-> IF k = skey THEN data ELSE t[k]]

\* _qry_select: SELECT * FROM web_session where key = ?
ExecSelect(t, skey) ==
    IF skey \in DOMAIN t THEN <<[key |-> skey, data |-> t[skey]]>> ELSE <<>>

\* _qry_check_key: SELECT key FROM web_session WHERE key = ?
ExecCheckKey(t, skey) ==
    IF skey \in DOMAIN t THEN <<[key |-> skey]>> ELSE <<>>

\* a mutation of ExecRemoveKey: the row is kept
ExecRemoveKeyKeep(t, skey) ==
    [table |-> t, was_applied |-> skey \in DOMAIN t]

\* _qry_remove_key: DELETE FROM web_session WHERE key = ? IF EXISTS
\* (the result's was_applied tells whether the row existed)
ExecRemoveKey(t, skey) ==
    [table |-> [k \in DOMAIN t \ {skey} |-> t[k]],
     was_applied |-> skey \in DOMAIN t]

\* token(key) > token(?): the partitioner gives the empty key the minimum
\* token and every other key a greater one
TokenAbove(skey, start) == start = <<>> /\ skey # <<>>

\* the orders the partitioner's tokens may give the rows of the table
TokenOrders(t) ==
    {s \in [1..Cardinality(DOMAIN t) -> DOMAIN t] :
        \A k \in DOMAIN t : \E i \in DOMAIN s : s[i] = k}

\* _qry_keys: SELECT key FROM web_session WHERE token(key) > token(?)
\* the selected rows, in the token order of the table's rows
RECURSIVE ExecKeys(_, _, _)
ExecKeys(t, start, order) ==
    IF order = <<>> THEN <<>>
    ELSE (IF Head(order) \in DOMAIN t /\ TokenAbove(Head(order), start)
          THEN <<[key |-> Head(order)]>> ELSE <<>>)
             \o ExecKeys(t, start, Tail(order))

(***************************************************************************)
(* CassandraManager: the namespace store.  Each method is an operator on   *)
(* the table as the store of namespace ns sees it; it yields what the      *)
(* method returns (exc = "none") or the exception it raises.               *)
(***************************************************************************)
Return(v) == [exc |-> "none", val |-> v]
Raise(e) == [exc |-> e, val |-> PyNone]

\* pickle.loads(text.decode('hex'))
LoadsHex(text) ==
    IF ~HexValid(text) THEN Raise("TypeError")
    ELSE IF ~PickleValid(HexDecode(text)) THEN Raise("UnpicklingError")
    ELSE Return(PickleLoads(HexDecode(text)))

\* a mutation of Contains: the key is looked up without _format_key
ContainsRawKey(t, ns, key) ==
    LET result == ExecCheckKey(t, key)
    IN  Len(result) > 0

\* __contains__
Contains(t, ns, key) ==
    LET result == ExecCheckKey(t, FormatKey(ns, key))
    IN  Len(result) > 0

\* has_key: key in self
HasKey(t, ns, key) == Contains(t, ns, key)

\* set_value: the row is written with the pickled value in hex
SetValue(t, ns, key, value) ==
    LET serial_value == HexEncode(PickleDumps(value))
    IN  ExecInsert(t, FormatKey(ns, key), serial_value)

\* __getitem__
GetItem(t, ns, key) ==
    LET result == ExecSelect(t, FormatKey(ns, key))
    IN  IF Len(result) > 0 THEN LoadsHex(result[1].data)
        ELSE Raise("KeyError")

\* get: result[0].decode looks the attribute decode up on the row itself,
\* which has the columns key and data only
Get(t, ns, key, default) ==
    LET result == ExecSelect(t, FormatKey(ns, key))
    IN  IF Len(result) = 0 THEN Return(default)
        ELSE IF "decode" \in DOMAIN result[1]
             THEN LoadsHex(result[1].decode)
             ELSE Raise("AttributeError")

\* a mutation of RemoveKey: was_applied is not looked at
RemoveKeyUnchecked(t, formatted_key) ==
    LET result == ExecRemoveKey(t, formatted_key)
    IN  [exc |-> "none", table |-> result.table]

\* _remove_key
RemoveKey(t, formatted_key) ==
    LET result == ExecRemoveKey(t, formatted_key)
    IN  IF result.was_applied
        THEN [exc |-> "none", table |-> result.table]
        ELSE [exc |-> "KeyError", table |-> result.table]

\* __delitem__
DelItem(t, ns, key) == RemoveKey(t, FormatKey(ns, key))

HasPrefix(s, p) == Len(s) >= Len(p) /\ SubSeq(s, 1, Len(p)) = p

\* a mutation of Keys: only the rows of the store's own namespace are listed
KeysOwnNamespace(t, ns, order) ==
    LET result == ExecKeys(t, <<>>, order)
        own == SelectSeq(result, LAMBDA a : HasPrefix(a.key, ns \o <<":">>))
    IN  [i \in DOMAIN own |-> own[i].key]

\* keys: the scan is seeded with the empty string; [a.key for a in result]
Keys(t, ns, order) ==
    LET result == ExecKeys(t, <<>>, order)
    IN  [i \in DOMAIN result |-> result[i].key]

\* a mutation of RemoveAll: the loop is left after the first key
RemoveAllFirstOnly(t, keys) ==
    IF keys = <<>> THEN [exc |-> "none", table |-> t]
    ELSE RemoveKey(t, Head(keys))

\* the for loop of do_remove over the listed keys: it ends at the first
\* _remove_key that raises
RECURSIVE RemoveAll(_, _)
RemoveAll(t, keys) ==
    IF keys = <<>> THEN [exc |-> "none", table |-> t]
    ELSE LET r == RemoveKey(t, Head(keys))
         IN  IF r.exc # "none" THEN r ELSE RemoveAll(r.table, Tail(keys))

\* do_remove: for key in self.keys(): self._remove_key(key)
DoRemove(t, ns, order) == RemoveAll(t, Keys(t, ns, order))

(***************************************************************************)
(* Actions of the store specification: one call of one method.             *)
(***************************************************************************)
NoCall == Outcome("none", <<>>, NoKey, PyNone, "none", PyNone, NoList)

\* store[key] = value
SetItem(ns, key, value) ==
    /\ Cardinality(DOMAIN SetValue(table, ns, key, value)) <= MaxRows
    /\ table' = SetValue(table, ns, key, value)
    /\ res' = Outcome("set", ns, key, value, "none", PyNone, NoList)
    /\ lastSet' = [k \in DOMAIN lastSet \cup {FormatKey(ns, key)} |->
                     IF k = FormatKey(ns, key) THEN value ELSE lastSet[k]]
    /\ UNCHANGED <<openVars, other, purging>>

\* del store[key]
DeleteItem(ns, key) ==
    LET r == DelItem(table, ns, key)
    IN  /\ table' = r.table
        /\ res' = Outcome("delete", ns, key, PyNone, r.exc, PyNone, NoList)
        /\ lastSet' = [k \in DOMAIN lastSet \ {FormatKey(ns, key)} |->
                         lastSet[k]]
        /\ UNCHANGED <<openVars, other, purging>>

\* store[key]
ReadItem(ns, key) ==
    LET r == GetItem(table, ns, key)
    IN  /\ res' = Outcome("getitem", ns, key, PyNone, r.exc, r.val, NoList)
        /\ UNCHANGED <<table, lastSet>>
        /\ UNCHANGED <<openVars, other, purging>>

\* store.get(key, default)
ReadOrDefault(ns, key, default) ==
    LET r == Get(table, ns, key, default)
    IN  /\ res' = Outcome("get", ns, key, default, r.exc, r.val, NoList)
        /\ UNCHANGED <<table, lastSet>>
        /\ UNCHANGED <<openVars, other, purging>>

\* key in store
TestContains(ns, key) ==
    /\ res' = Outcome("contains", ns, key, PyNone, "none",
                      PyBool(Contains(table, ns, key)), NoList)
    /\ UNCHANGED <<table, lastSet>>
    /\ UNCHANGED <<openVars, other, purging>>

\* store.has_key(key)
TestHasKey(ns, key) ==
    /\ res' = Outcome("has_key", ns, key, PyNone, "none",
                      PyBool(HasKey(table, ns, key)), NoList)
    /\ UNCHANGED <<table, lastSet>>
    /\ UNCHANGED <<openVars, other, purging>>

\* store.keys()
ListKeys(ns) ==
    \E order \in TokenOrders(table) :
        /\ res' = Outcome("keys", ns, NoKey, PyNone, "none", PyNone,
                          Keys(table, ns, order))
        /\ UNCHANGED <<table, lastSet>>
        /\ UNCHANGED <<openVars, other, purging>>

\* store.do_remove(), with no other client between its statements; the
\* outcome lists the keys its scan returned
Purge(ns) ==
    \E order \in TokenOrders(table) :
        LET r == DoRemove(table, ns, order)
        IN  /\ table' = r.table
            /\ res' = Outcome("do_remove", ns, NoKey, PyNone, r.exc, PyNone,
                              Keys(table, ns, order))
            /\ lastSet' = [k \in DOMAIN lastSet \ (DOMAIN table \ DOMAIN r.table)
                             |-> lastSet[k]]
            /\ UNCHANGED <<openVars, other, purging>>

NextStore ==
    \/ \E ns \in Namespaces, key \in LogicalKeys, value \in Values :
           SetItem(ns, key, value)
    \/ \E ns \in Namespaces, key \in LogicalKeys : DeleteItem(ns, key)
    \/ \E ns \in Namespaces, key \in LogicalKeys : ReadItem(ns, key)
    \/ \E ns \in Namespaces, key \in LogicalKeys, default \in Defaults :
           ReadOrDefault(ns, key, default)
    \/ \E ns \in Namespaces, key \in LogicalKeys : TestContains(ns, key)
    \/ \E ns \in Namespaces, key \in LogicalKeys : TestHasKey(ns, key)
    \/ \E ns \in Namespaces : ListKeys(ns)
    \/ \E ns \in Namespaces : Purge(ns)

vars == <<table, res, lastSet, nodes, schema, ctor, other, purging>>

(***************************************************************************)
(* Construction inputs                                                     *)
(***************************************************************************)
DC1 == <<"d", "c", "1">>
DC2 == <<"d", "c", "-", "2">>
DC3 == <<"d", "c", "3">>

\* the clusters a manager is opened against: one node; one data-center
\* with two nodes; two and three data-centers
Clusters ==
    {<<DC1>>, <<DC1, DC1>>, <<DC1, DC2>>, <<DC1, DC2, DC2>>, <<DC1, DC2, DC3>>}

\* keyspace_prefix: not given (None), empty, or a text
NoPrefix == [given |-> FALSE, text |-> <<>>]
Prefixes ==
    {NoPrefix, [given |-> TRUE, text |-> <<>>],
     [given |-> TRUE, text |-> <<"s", "-", "p">>]}

\* the arguments of __init__: which of session, cluster and cluster_getter
\* are supplied
ConstructArgs ==
    [keyspace_prefix : Prefixes, session : BOOLEAN, cluster : BOOLEAN,
     cluster_getter : BOOLEAN]

\* Python truth of keyspace_prefix
Truthy(prefix) == prefix.given /\ prefix.text # <<>>

\* the arguments the managers on the larger clusters are opened with: a
\* prefix and a session
SessionArgs ==
    {args \in ConstructArgs :
        /\ Truthy(args.keyspace_prefix)
        /\ args.session /\ ~args.cluster /\ ~args.cluster_getter}

(***************************************************************************)
(* Topology Inspector.  A statement is answered by the node the driver     *)
(* picks as its coordinator; system.local holds the coordinator's own row  *)
(* and system.peers one row for every other node.                          *)
(***************************************************************************)
Coordinators == 1..Len(nodes)

\* SELECT data_center from system.local, answered by node c
LocalRows(ns, c) == <<[data_center |-> ns[c]]>>

\* SELECT data_center from system.peers, answered by node c
PeerRows(ns, c) ==
    [i \in 1..(Len(ns) - 1) |-> [data_center |-> ns[IF i < c THEN i ELSE i + 1]]]

\* _localdc: r.current_rows[0].data_center
LocalDc(ns, c) == LocalRows(ns, c)[1].data_center

\* the loop of _topology over the peer rows
RECURSIVE CountPeers(_, _)
CountPeers(counter, rows) ==
    IF rows = <<>> THEN counter
    ELSE LET dc == Head(rows).data_center
         IN  CountPeers(IF dc \in DOMAIN counter
                        THEN [counter EXCEPT ![dc] = @ + 1]
                        ELSE counter @@ (dc :> 1),
                        Tail(rows))

\* a mutation of Topology: the local node is not counted
TopologyPeersOnly(ns, cl, cp) == CountPeers(<<>>, PeerRows(ns, cp))

\* _topology: the local row from node cl, the peer rows from node cp
Topology(ns, cl, cp) ==
    LET localdc == LocalRows(ns, cl)[1].data_center
    IN  CountPeers((localdc :> 1), PeerRows(ns, cp))

\* a mutation of NormalizeKeyspace: the name is used as given
NormalizeKeyspaceNot(keyspace) == keyspace

\* _normalize_keyspace: keyspace.replace('-', '_')
NormalizeKeyspace(keyspace) == StrReplace(keyspace, "-", <<"_">>)

\* keyspace_name: '{}_{}'.format(self.keyspace_prefix, self._localdc())
KeyspaceName(prefix, localdc) ==
    NormalizeKeyspace(prefix \o <<"_">> \o localdc)

(***************************************************************************)
(* Replication Planner.  The text is a sequence of pieces whose            *)
(* concatenation is the string the code builds.                            *)
(***************************************************************************)
\* "{'class': 'SimpleStrategy', 'replication_factor': 1}"
SimpleStrategyText ==
    <<"{", "'class': '", "SimpleStrategy", "'",
      ", '", "replication_factor", "': ", "1", "}">>

\* the orders in which a dict may be iterated
DictOrders(d) ==
    {s \in [1..Cardinality(DOMAIN d) -> DOMAIN d] :
        \A k \in DOMAIN d : \E i \in DOMAIN s : s[i] = k}

\* the loop of replication_policy over the data-centers: ", '{}': 1" for
\* the local one and ", '{}': 0" for the others
RECURSIVE DcEntries(_, _)
DcEntries(localdc, order) ==
    IF order = <<>> THEN <<>>
    ELSE <<", '">> \o Head(order)
             \o <<"': ", IF Head(order) = localdc THEN "1" ELSE "0">>
             \o DcEntries(localdc, Tail(order))

RECURSIVE SumCounts(_, _)
SumCounts(d, order) ==
    IF order = <<>> THEN 0 ELSE d[Head(order)] + SumCounts(d, Tail(order))

\* a mutation of ReplicationPolicy: the single-DC test counts the members
ReplicationPolicyByMembers(localdc, topology, order) ==
    IF SumCounts(topology, order) = 1 THEN SimpleStrategyText
    ELSE <<"{", "'class': '", "NetworkTopologyStrategy", "'">>
             \o DcEntries(localdc, order) \o <<"}">>

\* replication_policy, from the local data-center and the topology it
\* queried; order is the order in which the topology is iterated
ReplicationPolicy(localdc, topology, order) ==
    IF Cardinality(DOMAIN topology) = 1 THEN SimpleStrategyText
    ELSE <<"{", "'class': '", "NetworkTopologyStrategy", "'">>
             \o DcEntries(localdc, order) \o <<"}">>

(***************************************************************************)
(* Construction: __init__ and open_connection, one driver round trip per   *)
(* step.                                                                   *)
(***************************************************************************)
NoText == <<>>

\* a construction that has made no statement yet
Ctor(pc, args, exc, trace) ==
    [pc |-> pc, args |-> args, exc |-> exc, trace |-> trace,
     ks_created |-> NoText, localdc |-> NoText, topology |-> <<>>,
     replication |-> NoText, ks_named |-> NoText, keyspace |-> NoText,
     local_rows |-> <<>>, peer_rows |-> <<>>]

NoArgs ==
    [keyspace_prefix |-> NoPrefix, session |-> FALSE, cluster |-> FALSE,
     cluster_getter |-> FALSE]

NoCtor == Ctor("idle", NoArgs, "none", <<>>)

\* the if / elif chain of open_connection: the driver calls it makes, or
\* the exception it raises
OpenConnectionSource(args) ==
    IF args.cluster
    THEN [exc |-> "none", trace |-> <<"cluster.connect()">>]
    ELSE IF args.cluster_getter
    THEN [exc |-> "none", trace |-> <<"cluster_getter()", "cluster.connect()">>]
    ELSE IF args.session
    THEN [exc |-> "none", trace |-> <<>>]
    ELSE [exc |-> "MissingCacheParameter", trace |-> <<>>]

\* a mutation of InitCheck: the connection is opened before the prefix is
\* looked at
InitCheckAfterOpen(args) ==
    LET r == OpenConnectionSource(args)
    IN  IF r.exc = "none" /\ ~Truthy(args.keyspace_prefix)
        THEN [exc |-> "MissingCacheParameter", trace |-> r.trace]
        ELSE r

\* __init__ up to the first statement: the keyspace_prefix check, then
\* open_connection's choice of the connection
InitCheck(args) ==
    IF ~Truthy(args.keyspace_prefix)
    THEN [exc |-> "MissingCacheParameter", trace |-> <<>>]
    ELSE OpenConnectionSource(args)

\* a mutation of ExecCreateKeyspace: CREATE KEYSPACE replaces a keyspace
\* of that name
ExecCreateKeyspaceAnew(sch, name, replication) ==
    [k \in DOMAIN sch \cup {name} |->
        IF k = name THEN [tables |-> {}] ELSE sch[k]]

\* CREATE KEYSPACE IF NOT EXISTS name WITH replication = ...
ExecCreateKeyspace(sch, name, replication) ==
    IF name \in DOMAIN sch THEN sch
    ELSE sch @@ (name :> [tables |-> {}])

\* CREATE TABLE IF NOT EXISTS web_session (...) in the active keyspace
ExecCreateTable(sch, keyspace) ==
    [sch EXCEPT ![keyspace].tables = @ \cup {"web_session"}]

\* the rows of web_session after CREATE TABLE IF NOT EXISTS
CreatedRows(sch, keyspace, rows) ==
    IF "web_session" \in sch[keyspace].tables THEN rows ELSE <<>>

InitOpenVars ==
    /\ nodes \in Clusters
    /\ schema = <<>>
    /\ ctor = NoCtor
    /\ other = NoCtor

\* CassandraManager(namespace, keyspace_prefix=..., session=..., ...)
StartInit(args) ==
    /\ ctor.pc \in {"idle", "open", "failed"}
    /\ LET r == InitCheck(args)
       IN  ctor' = Ctor(IF r.exc = "none" THEN "keyspace_name" ELSE "failed",
                        args, r.exc, r.trace)
    /\ UNCHANGED <<nodes, schema>>
    /\ UNCHANGED <<storeVars, other, purging>>

\* line 114, self.keyspace_name(): _localdc answered by node c
NameKeyspace(c) ==
    /\ ctor.pc = "keyspace_name"
    /\ ctor' = [ctor EXCEPT
                  !.pc = "policy_localdc",
                  !.trace = Append(@, "execute system.local"),
                  !.ks_created = KeyspaceName(ctor.args.keyspace_prefix.text,
                                              LocalDc(nodes, c))]
    /\ UNCHANGED <<nodes, schema>>
    /\ UNCHANGED <<storeVars, other, purging>>

\* line 83, replication_policy: localdc = self._localdc(), by node c
PolicyLocalDc(c) ==
    /\ ctor.pc = "policy_localdc"
    /\ ctor' = [ctor EXCEPT
                  !.pc = "policy_topology",
                  !.trace = Append(@, "execute system.local"),
                  !.localdc = LocalDc(nodes, c)]
    /\ UNCHANGED <<nodes, schema>>
    /\ UNCHANGED <<storeVars, other, purging>>

\* lines 84-97, topology = self._topology(): the local row by node cl, the
\* peer rows by node cp; then the replication text
PolicyTopology(cl, cp) ==
    /\ ctor.pc = "policy_topology"
    /\ \E order \in DictOrders(Topology(nodes, cl, cp)) :
           ctor' = [ctor EXCEPT
                      !.pc = "create_keyspace",
                      !.trace = @ \o <<"execute system.local",
                                       "execute system.peers">>,
                      !.local_rows = LocalRows(nodes, cl),
                      !.peer_rows = PeerRows(nodes, cp),
                      !.topology = Topology(nodes, cl, cp),
                      !.replication =
                          ReplicationPolicy(ctor.localdc,
                                            Topology(nodes, cl, cp), order)]
    /\ UNCHANGED <<nodes, schema>>
    /\ UNCHANGED <<storeVars, other, purging>>

\* line 115, the CREATE KEYSPACE statement
CreateKeyspace ==
    /\ ctor.pc = "create_keyspace"
    /\ schema' = ExecCreateKeyspace(schema, ctor.ks_created, ctor.replication)
    /\ ctor' = [ctor EXCEPT
                  !.pc = "set_keyspace",
                  !.trace = Append(@, "execute CREATE KEYSPACE")]
    /\ UNCHANGED nodes
    /\ UNCHANGED <<storeVars, other, purging>>

\* line 116, set_keyspace(self.keyspace_name()): _localdc answered by node
\* c; a keyspace that does not exist is refused
SetKeyspace(c) ==
    /\ ctor.pc = "set_keyspace"
    /\ LET name == KeyspaceName(ctor.args.keyspace_prefix.text,
                                LocalDc(nodes, c))
       IN  ctor' = [ctor EXCEPT
                      !.pc = IF name \in DOMAIN schema
                             THEN "create_table" ELSE "failed",
                      !.exc = IF name \in DOMAIN schema
                              THEN "none" ELSE "InvalidRequest",
                      !.trace = @ \o <<"execute system.local", "set_keyspace">>,
                      !.ks_named = name,
                      !.keyspace = IF name \in DOMAIN schema
                                   THEN name ELSE NoText]
    /\ UNCHANGED <<nodes, schema>>
    /\ UNCHANGED <<storeVars, other, purging>>

\* line 117, the CREATE TABLE statement: a table that exists keeps its
\* rows, a table that is created is empty
CreateTable ==
    /\ ctor.pc = "create_table"
    /\ schema' = ExecCreateTable(schema, ctor.keyspace)
    /\ table' = CreatedRows(schema, ctor.keyspace, table)
    /\ lastSet' = CreatedRows(schema, ctor.keyspace, lastSet)
    /\ ctor' = [ctor EXCEPT
                  !.pc = "prepare",
                  !.trace = Append(@, "execute CREATE TABLE")]
    /\ UNCHANGED <<nodes, res, other, purging>>

\* lines 118-124, the five statements are prepared
PrepareStatements ==
    /\ ctor.pc = "prepare"
    /\ ctor' = [ctor EXCEPT
                  !.pc = "open",
                  !.trace = @ \o <<"prepare", "prepare", "prepare", "prepare",
                                   "prepare">>]
    /\ UNCHANGED <<nodes, schema>>
    /\ UNCHANGED <<storeVars, other, purging>>

\* the statements of open_connection, lines 114-124
Provision ==
    \/ \E c \in Coordinators : NameKeyspace(c)
    \/ \E c \in Coordinators : PolicyLocalDc(c)
    \/ \E cl \in Coordinators, cp \in Coordinators : PolicyTopology(cl, cp)
    \/ CreateKeyspace
    \/ \E c \in Coordinators : SetKeyspace(c)
    \/ CreateTable
    \/ PrepareStatements

NextOpen ==
    \/ \E args \in SessionArgs : StartInit(args)
    \/ Provision

NextInit ==
    \/ \E args \in ConstructArgs : StartInit(args)
    \/ Provision

\* the driver turns to the statements of the other manager
Switch ==
    /\ ctor' = other
    /\ other' = ctor
    /\ UNCHANGED <<nodes, schema, purging>>
    /\ UNCHANGED storeVars

\* two managers of the same prefix open against the same cluster, their
\* statements interleaved, each any number of times
NextProv ==
    \/ \E args \in SessionArgs : StartInit(args)
    \/ Provision
    \/ Switch

(***************************************************************************)
(* Specifications                                                          *)
(***************************************************************************)
InitStoreVars ==
    /\ table = <<>>
    /\ res = NoCall
    /\ lastSet = <<>>
    /\ purging = NoPurge

\* the schema a manager opened with prefix s-p on a one-node cluster left
ProvisionedSchema ==
    ExecCreateTable(
        ExecCreateKeyspace(<<>>, KeyspaceName(<<"s", "-", "p">>, DC1),
                           SimpleStrategyText),
        KeyspaceName(<<"s", "-", "p">>, DC1))

\* the stores of the namespaces are open on an empty table
InitStore ==
    /\ InitStoreVars
    /\ nodes = <<DC1>>
    /\ schema = ProvisionedSchema
    /\ ctor = NoCtor
    /\ other = NoCtor

\* the namespace store: calls of the methods of open stores
Spec == InitStore /\ [][NextStore]_vars

InitOpen ==
    /\ InitOpenVars
    /\ InitStoreVars

\* managers opened one after the other on a cluster, every statement
\* answered by any node
SpecOpen == InitOpen /\ [][NextOpen]_vars

InitInit ==
    /\ nodes = <<DC1>>
    /\ schema = <<>>
    /\ ctor = NoCtor
    /\ other = NoCtor
    /\ InitStoreVars

\* managers constructed one after the other on a one-node cluster, with
\* every combination of arguments
SpecInit == InitInit /\ [][NextInit]_vars

\* a record stored before the managers of SpecProv are opened
SeedKey == FormatKey(<<"n">>, <<"a", " ", "b">>)
SeedRows == (SeedKey :> HexEncode(PickleDumps(PyInt(7))))

\* the clusters of one data-center: every coordinator names the same
\* keyspace
OneDcClusters == {ns \in Clusters : Cardinality(Range(ns)) = 1}

\* the cluster is new, or already provisioned and holding a record
InitProv ==
    /\ nodes \in OneDcClusters
    /\ ctor = NoCtor
    /\ other = NoCtor
    /\ res = NoCall
    /\ purging = NoPurge
    /\ \/ schema = <<>> /\ table = <<>> /\ lastSet = <<>>
       \/ /\ schema = ProvisionedSchema
          /\ table = SeedRows
          /\ lastSet = (SeedKey :> PyInt(7))

SpecProv == InitProv /\ [][NextProv]_vars

\* data another program left in a row: text that is not hex, and the hex
\* of bytes that are no pickle
CorruptData == {<<"z", "z">>, <<"8", "0">>}

\* another program writes a row of web_session
ForeignWrite(skey, data) ==
    /\ Cardinality(DOMAIN ExecInsert(table, skey, data)) <= MaxRows
    /\ table' = ExecInsert(table, skey, data)
    /\ UNCHANGED <<res, lastSet>>
    /\ UNCHANGED <<openVars, other, purging>>

\* the namespace whose store reads the rows other programs wrote
CorruptNamespaces == {<<"n">>}

\* the store of a namespace on a table that other programs write too
NextCorrupt ==
    \/ \E ns \in CorruptNamespaces, key \in LogicalKeys, data \in CorruptData :
           ForeignWrite(FormatKey(ns, key), data)
    \/ \E ns \in CorruptNamespaces, key \in LogicalKeys, value \in Values :
           SetItem(ns, key, value)
    \/ \E ns \in CorruptNamespaces, key \in LogicalKeys : ReadItem(ns, key)
    \/ \E ns \in CorruptNamespaces, key \in LogicalKeys, default \in Defaults :
           ReadOrDefault(ns, key, default)

SpecCorrupt == InitStore /\ [][NextCorrupt]_vars

\* lastSet once the row of skey is deleted
Forget(skey) == [k \in DOMAIN lastSet \ {skey} |-> lastSet[k]]

\* do_remove, line 170: keys() lists the table in one statement; an empty
\* list ends the call
PurgeScan(ns) ==
    /\ purging.pc \in {"idle", "done", "failed"}
    /\ \E order \in TokenOrders(table) :
           LET listed == Keys(table, ns, order)
           IN  purging' = [pc |-> IF listed = <<>> THEN "done" ELSE "deleting",
                           ns |-> ns, listed |-> listed, rest |-> listed,
                           exc |-> "none", since |-> {}]
    /\ UNCHANGED <<table, res, lastSet>>
    /\ UNCHANGED <<openVars, other>>

\* do_remove, line 171: _remove_key of the next listed key; KeyError ends
\* the call with the keys after it not deleted, the last key ends it
PurgeDelete ==
    /\ purging.pc = "deleting"
    /\ LET r == RemoveKey(table, Head(purging.rest))
       IN  /\ table' = r.table
           /\ lastSet' = Forget(Head(purging.rest))
           /\ purging' = [purging EXCEPT
                             !.pc = IF r.exc # "none" THEN "failed"
                                    ELSE IF Tail(purging.rest) = <<>>
                                    THEN "done" ELSE "deleting",
                             !.rest = Tail(@),
                             !.exc = r.exc]
    /\ UNCHANGED res
    /\ UNCHANGED <<openVars, other>>

\* what another client's call makes of purging: a set during the deletes
\* is noted, and the record of an ended do_remove is dropped
Noted(skeys) ==
    IF purging.pc = "deleting"
    THEN [purging EXCEPT !.since = @ \cup skeys]
    ELSE NoPurge

\* store[key] = value by another client
ConcurrentSet(ns, key, value) ==
    /\ Cardinality(DOMAIN SetValue(table, ns, key, value)) <= MaxRows
    /\ table' = SetValue(table, ns, key, value)
    /\ lastSet' = [k \in DOMAIN lastSet \cup {FormatKey(ns, key)} |->
                     IF k = FormatKey(ns, key) THEN value ELSE lastSet[k]]
    /\ purging' = Noted({FormatKey(ns, key)})
    /\ UNCHANGED res
    /\ UNCHANGED <<openVars, other>>

\* del store[key] by another client
ConcurrentDelete(ns, key) ==
    /\ table' = DelItem(table, ns, key).table
    /\ lastSet' = Forget(FormatKey(ns, key))
    /\ purging' = Noted({})
    /\ UNCHANGED res
    /\ UNCHANGED <<openVars, other>>

\* the logical keys and the value the other clients use
ConcKeys == {<<"a", " ", "b">>, <<"a", "\t", "b">>}
ConcValues == {PyInt(7)}

\* a store running do_remove statement by statement while other clients
\* set and delete keys of the same table
NextConc ==
    \/ \E ns \in Namespaces : PurgeScan(ns)
    \/ PurgeDelete
    \/ \E ns \in Namespaces, key \in ConcKeys, value \in ConcValues :
           ConcurrentSet(ns, key, value)
    \/ \E ns \in Namespaces, key \in ConcKeys : ConcurrentDelete(ns, key)

SpecConc == InitStore /\ [][NextConc]_vars

(***************************************************************************)
(* Properties of the namespace store (specification Spec)                  *)
(***************************************************************************)
\* what a read of a storage key must give by the history of sets and deletes
Expected(skey) ==
    IF skey \in DOMAIN lastSet THEN Return(lastSet[skey]) ELSE Raise("KeyError")

\* C1: last write wins.  In every state, store[key] returns the value of the
\* most recent set on the key's storage key that no delete followed, and
\* raises KeyError when there is none, whatever was done to other storage
\* keys; and so did the last store[key] that was called.
C1_LastWriteWins ==
    /\ \A ns \in Namespaces, key \in LogicalKeys :
           GetItem(table, ns, key) = Expected(FormatKey(ns, key))
    /\ res.op = "getitem" =>
           [exc |-> res.exc, val |-> res.val]
               = Expected(FormatKey(res.ns, res.key))

\* a read returned the value of a set, with other rows in the table
C1_Witness ==
    /\ res.op = "getitem" /\ res.exc = "none" /\ res.val = PyInt(200)
    /\ Cardinality(DOMAIN table) >= 2
    /\ \E k \in DOMAIN lastSet : lastSet[k] = PyInt(7)

\* C2: a delete of a key whose row is absent raises KeyError and leaves the
\* table as it was; a delete of a present row removes that row only and
\* returns; a delete that follows a delete of the same key raises KeyError.
C2_DeleteConditional ==
    [][res'.op = "delete" =>
         LET skey == FormatKey(res'.ns, res'.key)
         IN  /\ skey \notin DOMAIN table =>
                    res'.exc = "KeyError" /\ table' = table
             /\ skey \in DOMAIN table =>
                    /\ res'.exc = "none"
                    /\ DOMAIN table' = DOMAIN table \ {skey}
                    /\ \A k \in DOMAIN table' : table'[k] = table[k]
             /\ (res.op = "delete" /\ res.ns = res'.ns /\ res.key = res'.key)
                    => res'.exc = "KeyError"]_vars

\* a delete failed on an absent row while other rows were there
C2_Witness ==
    /\ res.op = "delete" /\ res.exc = "KeyError"
    /\ Cardinality(DOMAIN table) >= 2

\* C3: contains and has_key leave the table alone and return true exactly
\* when the table has a row with the key's storage key, which is exactly
\* when the key was set and not deleted since.
C3_ContainsIffRow ==
    [][/\ \A ns \in Namespaces, key \in LogicalKeys :
              /\ Contains(table', ns, key)
                     = (FormatKey(ns, key) \in DOMAIN table')
              /\ Contains(table', ns, key)
                     = (FormatKey(ns, key) \in DOMAIN lastSet')
       /\ res'.op \in {"contains", "has_key"} =>
              /\ table' = table
              /\ res'.exc = "none"
              /\ res'.val = PyBool(FormatKey(res'.ns, res'.key)
                                       \in DOMAIN table)]_vars

\* contains returned true for a key and the table has other rows too
C3_Witness ==
    /\ res.op = "contains" /\ res.val = PyBool(TRUE)
    /\ \E k \in DOMAIN table : k # FormatKey(res.ns, res.key)

\* C4 as claimed: get(key, default) returns what store[key] returns when the
\* row is present, and the default when it is absent.
C4_GetAgreesWithGetItem ==
    /\ \A ns \in Namespaces, key \in LogicalKeys, default \in Defaults :
           Get(table, ns, key, default)
               = IF FormatKey(ns, key) \in DOMAIN table
                 THEN GetItem(table, ns, key) ELSE Return(default)
    /\ res.op = "get" =>
           [exc |-> res.exc, val |-> res.val]
               = IF FormatKey(res.ns, res.key) \in DOMAIN table
                 THEN GetItem(table, res.ns, res.key) ELSE Return(res.arg)

\* C5: do_remove, run with no other client between its statements, returns
\* without raising; afterwards keys() lists no key of the store's namespace
\* and contains is false for every key that was in it.
C5_PurgeEmptiesNamespace ==
    [][res'.op = "do_remove" =>
         /\ res'.exc = "none"
         /\ \A order \in TokenOrders(table') :
                \A e \in Range(Keys(table', res'.ns, order)) :
                    /\ ~HasPrefix(e, res'.ns \o <<":">>)
                    /\ \A key \in LogicalKeys :
                           Contains(table, res'.ns, key) => e # key
         /\ \A key \in LogicalKeys :
                Contains(table, res'.ns, key) => ~Contains(table', res'.ns, key)
      ]_vars

\* do_remove ran on a table that held several rows, one of its namespace
C5_Witness ==
    /\ res.op = "do_remove" /\ res.exc = "none"
    /\ Len(res.list) >= 2
    /\ \E i \in DOMAIN res.list : HasPrefix(res.list[i], res.ns \o <<":">>)

\* C6 as claimed: every element of keys() is a logical key, for which
\* contains is true and store[k] returns the value last set under it; and
\* every logical key set and not deleted in the namespace is listed as it
\* was set.
C6_KeysAreLogicalKeys ==
    res.op = "keys" =>
        /\ \A e \in Range(res.list) :
               /\ Contains(table, res.ns, e)
               /\ GetItem(table, res.ns, e) = Expected(FormatKey(res.ns, e))
        /\ \A key \in LogicalKeys :
               FormatKey(res.ns, key) \in DOMAIN lastSet
                   => key \in Range(res.list)

\* C7: keys() lists every row of the table once, those of other namespaces
\* too, and a second keys() with no write in between lists the same set.
C7_KeysScansTable ==
    [][res'.op = "keys" =>
         /\ Range(res'.list) = DOMAIN table'
         /\ Len(res'.list) = Cardinality(DOMAIN table')
         /\ res.op = "keys" => Range(res'.list) = Range(res.list)]_vars

\* keys() on one namespace listed a row of the other namespace
C7_Witness ==
    /\ res.op = "keys"
    /\ Len(res.list) >= 2
    /\ \E e \in Range(res.list) : ~HasPrefix(e, res.ns \o <<":">>)

(***************************************************************************)
(* Properties of the construction (specifications SpecOpen and SpecInit)   *)
(***************************************************************************)
\* the strategy class a replication text names
ParseClass(text) ==
    IF Len(text) >= 4 /\ text[1] = "{" /\ text[2] = "'class': '" /\ text[4] = "'"
    THEN text[3] ELSE "malformed"

\* the entries of a replication text after its class: key and factor
RECURSIVE ParseEntries(_)
ParseEntries(text) ==
    IF text = <<>> THEN <<>>
    ELSE IF Head(text) = ", '"
    THEN LET rest == Tail(text)
             n == CHOOSE i \in 1..Len(rest) :
                      rest[i] = "': " /\ \A j \in 1..(i - 1) : rest[j] # "': "
         IN  <<[key |-> SubSeq(rest, 1, n - 1), factor |-> rest[n + 1]]>>
                 \o ParseEntries(SubSeq(rest, n + 2, Len(rest)))
    ELSE ParseEntries(Tail(text))

\* replication_policy has returned in the construction under way
PolicyComputed == ctor.replication # NoText

\* C8: when the topology replication_policy queried has exactly one
\* data-center, the text is the SimpleStrategy description with
\* replication_factor 1, whatever the number of members.
C8_SingleDcSimpleStrategy ==
    (PolicyComputed /\ Cardinality(DOMAIN ctor.topology) = 1) =>
        /\ ctor.replication = SimpleStrategyText
        /\ ParseClass(ctor.replication) = "SimpleStrategy"
        /\ ParseEntries(ctor.replication)
               = <<[key |-> <<"replication_factor">>, factor |-> "1"]>>

\* the plan was made for one data-center with several members
C8_Witness ==
    /\ PolicyComputed
    /\ Cardinality(DOMAIN ctor.topology) = 1
    /\ \E dc \in DOMAIN ctor.topology : ctor.topology[dc] >= 2
    /\ ParseClass(ctor.replication) = "SimpleStrategy"

\* C9 as claimed: when the topology has more than one data-center, the text
\* is a NetworkTopologyStrategy description with one entry per data-center
\* of the topology, factor 1 for the local data-center and 0 for the others,
\* so that exactly one data-center has factor 1 and it is the local one.
C9_MultiDcLocalOnly ==
    (PolicyComputed /\ Cardinality(DOMAIN ctor.topology) > 1) =>
        LET entries == ParseEntries(ctor.replication)
        IN  /\ ParseClass(ctor.replication) = "NetworkTopologyStrategy"
            /\ Len(entries) = Cardinality(DOMAIN ctor.topology)
            /\ {entries[i].key : i \in DOMAIN entries} = DOMAIN ctor.topology
            /\ \A i \in DOMAIN entries :
                   entries[i].factor
                       = IF entries[i].key = ctor.localdc THEN "1" ELSE "0"
            /\ {entries[i].key : i \in {j \in DOMAIN entries :
                                           entries[j].factor = "1"}}
                   = {ctor.localdc}

\* the positions of a trace that hold a statement executed or prepared on
\* the cluster, not the call of cluster_getter or the connect
Statements(trace) ==
    {i \in DOMAIN trace : trace[i] \notin {"cluster_getter()", "cluster.connect()"}}

\* C10: a construction without keyspace_prefix, or with none of session,
\* cluster and cluster_getter, raises MissingCacheParameter with no
\* statement executed or prepared and the schema as it was; without
\* keyspace_prefix it opens no connection and does not call cluster_getter.
C10_MissingParameter ==
    [][(ctor.pc \in {"idle", "open", "failed"} /\ ctor' # ctor) =>
         LET args == ctor'.args
         IN  /\ (~args.keyspace_prefix.given
                   \/ (~args.session /\ ~args.cluster /\ ~args.cluster_getter))
                    => /\ ctor'.pc = "failed"
                       /\ ctor'.exc = "MissingCacheParameter"
                       /\ Statements(ctor'.trace) = {}
                       /\ schema' = schema
             /\ ~args.keyspace_prefix.given => ctor'.trace = <<>>]_vars

\* a construction without keyspace_prefix but with a cluster_getter failed
\* on a cluster that an earlier construction had provisioned
C10_Witness ==
    /\ ctor.pc = "failed" /\ ctor.exc = "MissingCacheParameter"
    /\ ~ctor.args.keyspace_prefix.given /\ ctor.args.cluster_getter
    /\ schema # <<>>


(***************************************************************************)
(* Schema provisioning with interleaved managers (SpecProv)                *)
(***************************************************************************)
\* the keyspace every manager of SpecProv names
ProvKeyspace == KeyspaceName(<<"s", "-", "p">>, DC1)

\* C11: provisioning the same keyspace name any number of times, the
\* statements of two managers interleaved, never fails, leaves at most
\* the one keyspace, leaves exactly that keyspace with the one web_session
\* table once the managers are open, and leaves the stored rows as they
\* were.
C11_ProvisioningIdempotent ==
    [][/\ ctor'.pc # "failed" /\ other'.pc # "failed"
       /\ DOMAIN schema' \subseteq {ProvKeyspace}
       /\ (ctor'.pc = "open" /\ other'.pc \in {"idle", "open"}) =>
              /\ DOMAIN schema' = {ProvKeyspace}
              /\ schema'[ProvKeyspace].tables = {"web_session"}
       /\ table' = table]_vars

\* both managers are open on the two-node cluster that held a record
C11_Witness ==
    /\ ctor.pc = "open" /\ other.pc = "open"
    /\ Len(nodes) = 2
    /\ table = SeedRows
    /\ schema = ProvisionedSchema

(***************************************************************************)
(* Properties of the key codec (specification Spec)                        *)
(***************************************************************************)
\* the whitespace characters among those of the logical keys
Whitespace == {" ", "\t"}

\* a key in which every character of chars is replaced by the separator
ReplaceEach(key, chars) ==
    LET piece(c) == IF c \in chars THEN <<"0xC2", "0xB7">> ELSE <<c>>
        F[i \in 0..Len(key)] ==
            IF i = 0 THEN <<>> ELSE F[i - 1] \o piece(key[i])
    IN  F[Len(key)]

\* C12 as stated: the storage key a set writes is namespace + ':' + the
\* logical key with every whitespace character replaced by the separator,
\* and no storage key in the table contains a whitespace character.
C12_NoWhitespaceInStorageKey ==
    /\ res.op = "set" =>
           /\ FormatKey(res.ns, res.key)
                  = res.ns \o <<":">> \o ReplaceEach(res.key, Whitespace)
           /\ FormatKey(res.ns, res.key) \in DOMAIN table
    /\ \A k \in DOMAIN table : Range(k) \cap Whitespace = {}

\* C12, amended: the storage key a set writes is namespace + ':' + the
\* logical key with every space character replaced by the separator and
\* every other character kept, and no storage key in the table contains a
\* space character.
C12_SpacesReplaced ==
    /\ res.op = "set" =>
           /\ FormatKey(res.ns, res.key)
                  = res.ns \o <<":">> \o ReplaceEach(res.key, {" "})
           /\ FormatKey(res.ns, res.key) \in DOMAIN table
    /\ \A k \in DOMAIN table : " " \notin Range(k)

\* a key with a space was set while the row of a key with a tab is there
C12_Witness ==
    /\ res.op = "set" /\ res.key = <<"a", " ", "b">>
    /\ FormatKey(res.ns, <<"a", "\t", "b">>) \in DOMAIN table

(***************************************************************************)
(* Reads of rows that do not decode (specification SpecCorrupt)            *)
(***************************************************************************)
\* what pickle.loads(data.decode('hex')) raises on data that does not decode
DecodeErrors == {"TypeError", "UnpicklingError"}

\* C13: when the row of a key is present and its data cannot be decoded,
\* store[key] and store.get(key, default) both raise a decode failure:
\* neither returns a value and neither raises KeyError.  (A step that
\* changes res is a call of the store.)
C13_DecodeFailureSurfaced ==
    [][(/\ res' # res /\ res'.op \in {"getitem", "get"}
        /\ FormatKey(res'.ns, res'.key) \in DOMAIN table
        /\ table[FormatKey(res'.ns, res'.key)] \in CorruptData)
          => res'.exc \in DecodeErrors]_vars

(***************************************************************************)
(* do_remove among other clients (specification SpecConc)                  *)
(***************************************************************************)
\* the storage keys of namespace ns in a set of storage keys
OfNamespace(skeys, ns) == {k \in skeys : HasPrefix(k, ns \o <<":">>)}

\* C14: do_remove is not atomic.  It lists the keys once and deletes them
\* one by one, so when it has ended without an exception every row in the
\* table is one that another client set after the scan: a key set after
\* the scan or a key set again after its delete.  (C14_Witness is the
\* interleaving the claim says exists.)
C14_PurgeNotAtomic ==
    purging.pc = "done" =>
        /\ purging.rest = <<>>
        /\ DOMAIN table \subseteq purging.since

\* do_remove has ended and the table holds two keys of its namespace: one
\* that it listed and deleted, set again since, and one that it did not
\* list
C14_Witness ==
    /\ purging.pc = "done"
    /\ \E k \in OfNamespace(DOMAIN table, purging.ns) :
           k \in Range(purging.listed)
    /\ \E k \in OfNamespace(DOMAIN table, purging.ns) :
           k \notin Range(purging.listed)

(***************************************************************************)
(* Properties of the topology and the keyspace name (specification         *)
(* SpecOpen)                                                               *)
(***************************************************************************)
\* the number of rows of a result that name the data-center dc
RowsOf(rows, dc) == Cardinality({i \in DOMAIN rows : rows[i].data_center = dc})

\* C15: the topology a construction computed has exactly the data-centers
\* of the local row and of the peer rows it was answered as keys, counts
\* for each the peers of that data-center plus 1 for the local one, holds
\* the local data-center with a count of at least 1 (also with no peers),
\* and its counts sum to the number of peers plus 1.
C15_TopologyCounts ==
    ctor.local_rows # <<>> =>
        LET localdc == ctor.local_rows[1].data_center
            peers == ctor.peer_rows
            order == CHOOSE o \in DictOrders(ctor.topology) : TRUE
        IN  /\ DOMAIN ctor.topology
                   = {localdc} \cup {peers[i].data_center : i \in DOMAIN peers}
            /\ \A dc \in DOMAIN ctor.topology :
                   ctor.topology[dc]
                       = RowsOf(peers, dc) + (IF dc = localdc THEN 1 ELSE 0)
            /\ localdc \in DOMAIN ctor.topology
            /\ ctor.topology[localdc] >= 1
            /\ SumCounts(ctor.topology, order) = Len(peers) + 1

\* a topology of a local node alone in its data-center and two peers that
\* share another one
C15_Witness ==
    /\ ctor.local_rows # <<>>
    /\ Len(ctor.peer_rows) = 2
    /\ ctor.topology[ctor.local_rows[1].data_center] = 1
    /\ \E dc \in DOMAIN ctor.topology : ctor.topology[dc] = 2

\* a text with every hyphen replaced by an underscore
Underscored(text) == [i \in DOMAIN text |-> IF text[i] = "-" THEN "_" ELSE text[i]]

\* C16: a keyspace name a construction computed, the one it created and
\* the one it made active, is prefix + '_' + the data-center of a node of
\* the cluster with every hyphen replaced by an underscore, and holds no
\* hyphen.  (The name has no other input, so constructions of the same
\* prefix answered the same data-center compute the same name.)
C16_KeyspaceNameNormalized ==
    \A name \in {ctor.ks_created, ctor.ks_named} \ {NoText} :
        /\ "-" \notin Range(name)
        /\ \E c \in Coordinators :
               name = Underscored(ctor.args.keyspace_prefix.text
                                      \o <<"_">> \o LocalDc(nodes, c))

\* a prefix with a hyphen and a data-center with a hyphen were named
C16_Witness ==
    /\ ctor.ks_named = <<"s", "_", "p", "_", "d", "c", "_", "2">>
    /\ "-" \in Range(ctor.args.keyspace_prefix.text)

\* C17: within one construction the keyspace named to set_keyspace is the
\* keyspace named in its CREATE KEYSPACE statement, and the data-center
\* its replication text is computed for (the one given factor 1) is the
\* data-center of that keyspace name and a member of the topology used.
C17_LocalDcConsistent ==
    /\ ctor.ks_named # NoText => ctor.ks_named = ctor.ks_created
    /\ ctor.replication # NoText =>
           /\ KeyspaceName(ctor.args.keyspace_prefix.text, ctor.localdc)
                  = ctor.ks_created
           /\ ctor.localdc \in DOMAIN ctor.topology

\* C19: a do_remove that runs while another client deletes keys of the
\* table never raises KeyError, and never ends with listed keys that it
\* has not deleted.
C19_PurgeRunsToCompletion ==
    /\ purging.exc # "KeyError"
    /\ purging.pc \in {"done", "failed"} => purging.rest = <<>>

(***************************************************************************)
(* do_remove and the other namespaces; keys that share a storage key       *)
(* (specification Spec)                                                    *)
(***************************************************************************)
\* C18: do_remove of the store of one namespace deletes no row whose
\* storage key belongs to another namespace, and a read of any key through
\* the store of another namespace gives after it what it gave before.
C18_PurgeOwnNamespaceOnly ==
    [][res'.op = "do_remove" =>
         /\ \A k \in DOMAIN table \ OfNamespace(DOMAIN table, res'.ns) :
                k \in DOMAIN table' /\ table'[k] = table[k]
         /\ \A ns \in Namespaces \ {res'.ns}, key \in LogicalKeys :
                GetItem(table', ns, key) = GetItem(table, ns, key)]_vars

\* C20: two different logical keys of one namespace never have the same
\* storage key, so a set or a delete of one key leaves what a read of any
\* other key of the namespace gives.
C20_FormatKeyInjective ==
    [][res'.op \in {"set", "delete"} =>
         \A k2 \in LogicalKeys \ {res'.key} :
             /\ FormatKey(res'.ns, k2) # FormatKey(res'.ns, res'.key)
             /\ GetItem(table', res'.ns, k2) = GetItem(table, res'.ns, k2)]_vars

====
